---- MODULE Spec2Model ----
(***************************************************************************)
(* State-machine model of the notebook ipta_gwa_tutorial_part2.ipynb:      *)
(* the cells of the notebook run top to bottom, each cell is one action,   *)
(* and the notebook's global names are the variables.  The two waveform    *)
(* functions chrom_exp_decay and chrom_yearly_sinusoid are operators and   *)
(* are exercised by a second specification, SpecWave.                      *)
(***************************************************************************)
EXTENDS Integers, Sequences, FiniteSets, TLC

VARIABLES
    pc,          \* position in CellOrder; 0 = stopped by an exception
    datadir,     \* contents of ./partim_filtered_ppta_ng/ (input)
    noisedir,    \* contents of noisefiles_ppta_ng_normal/ (input)
    parfiles, timfiles, psrs,
    warnings,    \* pulsars the loading cell has warned about, in order
    noisefiles, params,
    s, models, pta,
    x0, ndim, cov, sampler,
    chainfile, parsfile,      \* chain_1.txt and pars.txt in the output directory
    chain, burn, pars, ind, out,
    super_model,
    wave                      \* last waveform evaluation (SpecWave only)

loadVars  == <<datadir, noisedir, parfiles, timfiles, psrs, warnings,
               noisefiles, params>>
modelVars == <<s, models, pta, super_model>>
runVars   == <<x0, ndim, cov, sampler, chainfile, parsfile>>
postVars  == <<chain, burn, pars, ind, out>>
vars == <<pc, loadVars, modelVars, runVars, postVars, wave>>

-----------------------------------------------------------------------------
(* Bounds of the model *)

\* most rows a sampler run writes to chain_1.txt
MaxRows == 4

-----------------------------------------------------------------------------
(* Pulsar names and the data directory *)

\* keys of psrdict (three of the nineteen)
psrlist == {"J0437-4715", "J1713+0747", "J1909-3744"}

\* a pulsar with files in the data directory that psrdict does not list
Unlisted == "J1939+2134"

\* every pulsar name that can occur as a file prefix, in sorted() order
SortedNames == <<"J0437-4715", "J1713+0747", "J1909-3744", "J1939+2134">>

AllNames == {SortedNames[i] : i \in 1..Len(SortedNames)}

\* values of the 'pta' flag of the TOAs of a tim file
FlagSets == {{"NANOGrav"}, {"PPTA"}, {"NANOGrav", "PPTA"}}

\* a file <stem>.<ext> of the data directory
File(stem, ext) == [stem |-> stem, ext |-> ext]

\* sorted(glob.glob(datadir + '/*.' + ext)), present the stems that have one
SortedGlob(present, ext) ==
    LET stems == SelectSeq(SortedNames, LAMBDA n : n \in present)
    IN  [i \in DOMAIN stems |-> File(stems[i], ext)]

Take(seq, n) == SubSeq(seq, 1, IF Len(seq) < n THEN Len(seq) ELSE n)

Min(a, b) == IF a < b THEN a ELSE b

Range(f) == {f[i] : i \in DOMAIN f}

-----------------------------------------------------------------------------
(* enterprise parameters.  A parameter is a record: cls is the parameter   *)
(* class, lo and hi the prior bounds as written in the source, value the   *)
(* value of a Constant (<<>> while unset), name the name it was            *)
(* pre-initialized with ("" when it is instantiated per pulsar), size the  *)
(* number of entries its sample() contributes to x0.                       *)

Constant(value) ==
    [cls |-> "Constant", lo |-> "", hi |-> "", value |-> value, name |-> "", size |-> 1]

LinearExp(lo, hi) ==
    [cls |-> "LinearExp", lo |-> lo, hi |-> hi, value |-> <<>>, name |-> "", size |-> 1]

Uniform(lo, hi) ==
    [cls |-> "Uniform", lo |-> lo, hi |-> hi, value |-> <<>>, name |-> "", size |-> 1]

\* parameter(...)('name'): pre-initialize with a name
Named(prm, name) == [prm EXCEPT !.name = name]

MutEfacSampled == Uniform("0.1", "5")

\* white noise parameters
efac  == Constant(<<>>)
equad == Constant(<<>>)
ecorr == Constant(<<>>)

\* red noise parameters
log10_A == LinearExp("-20", "-11")
gamma   == Uniform("0", "7")

\* dm-variation parameters
log10_A_dm == LinearExp("-20", "-11")
gamma_dm   == Uniform("0", "7")

\* GW parameters (initialized with names to be in common across pulsars);
\* the constant 4.33 is held in hundredths
MutLog10AgwUnnamed == LinearExp("-18", "-12")
log10_A_gw == Named(LinearExp("-18", "-12"), "log10_A_gw")
gamma_gw   == Named(Constant(<<433>>), "gamma_gw")

-----------------------------------------------------------------------------
(* Signals.  A signal is a record: name as used in the notebook, signame   *)
(* the name= given to the signal class (it enters the parameter names),    *)
(* selection the Selection that splits its parameters by TOA group, pars   *)
(* the keyword -> parameter pairs, fixed the keyword -> non-parameter      *)
(* arguments handed on to the waveform function.                           *)

Signal(name, signame, selection, kws, fixed) ==
    [name |-> name, signame |-> signame, selection |-> selection,
     pars |-> kws, fixed |-> fixed]

Kw(kw, prm) == [kw |-> kw, prm |-> prm]

ef == Signal("ef", "", "by_backend", <<Kw("efac", efac)>>, <<>>)
eq == Signal("eq", "", "by_backend", <<Kw("log10_equad", equad)>>, <<>>)
ec == Signal("ec", "", "nanograv_backends", <<Kw("log10_ecorr", ecorr)>>, <<>>)

rn == Signal("rn", "", "none", <<Kw("log10_A", log10_A), Kw("gamma", gamma)>>, <<>>)

dm_gp == Signal("dm_gp", "dm_gp", "none",
                <<Kw("log10_A", log10_A_dm), Kw("gamma", gamma_dm)>>, <<>>)

gw == Signal("gw", "gw", "none",
             <<Kw("log10_A", log10_A_gw), Kw("gamma", gamma_gw)>>, <<>>)

\* PhysicalEphemerisSignal: its parameters are common to all pulsars
EphPar(name, size) == [Named(Uniform("", ""), name) EXCEPT !.size = size]

eph == Signal("eph", "", "none",
              <<Kw("frame_drift_rate", EphPar("frame_drift_rate", 1)),
                Kw("d_jupiter_mass", EphPar("d_jupiter_mass", 1)),
                Kw("d_saturn_mass", EphPar("d_saturn_mass", 1)),
                Kw("d_uranus_mass", EphPar("d_uranus_mass", 1)),
                Kw("d_neptune_mass", EphPar("d_neptune_mass", 1)),
                Kw("jup_orb_elements", EphPar("jup_orb_elements", 6))>>, <<>>)

tm == Signal("tm", "", "none", <<>>, <<>>)

\* dm_exponential_dip(tmin, tmax, idx=2, name='dmexp'): idx is handed on to
\* chrom_exp_decay as it was given
dm_exponential_dip(tmin, tmax, idx, name) ==
    LET t0_dmexp        == Uniform(tmin, tmax)
        log10_Amp_dmexp == Uniform("-10", "-2")
        log10_tau_dmexp == Uniform("np.log10(5)", "np.log10(100)")
    IN  Signal("dm_exponential_dip", name, "none",
               <<Kw("log10_Amp", log10_Amp_dmexp), Kw("t0", t0_dmexp),
                 Kw("log10_tau", log10_tau_dmexp)>>,
               <<[kw |-> "idx", arg |-> idx]>>)

\* dm_annual_signal(idx=2, name='dm_s1yr')
dm_annual_signal(idx, name) ==
    LET log10_Amp_dm1yr == Uniform("-10", "-2")
        phase_dm1yr     == Uniform("0", "2*np.pi")
    IN  Signal("dm_annual_signal", name, "none",
               <<Kw("log10_Amp", log10_Amp_dm1yr), Kw("phase", phase_dm1yr)>>,
               <<[kw |-> "idx", arg |-> idx]>>)

\* s = ef + eq + rn + dm_gp + tm + eph + gw
FullModel == <<ef, eq, rn, dm_gp, tm, eph, gw>>

\* a + b on signal collections
Add(coll, sig) == Append(coll, sig)

-----------------------------------------------------------------------------
(* Instantiating a signal collection on a pulsar: s(p) *)

\* the TOA groups a Selection makes for pulsar p
Groups(selection, p) ==
    IF selection = "by_backend" THEN p.flags
    ELSE IF selection = "nanograv_backends" THEN p.flags \cap {"NANOGrav"}
    ELSE {""}

Prefix(str) == IF str = "" THEN "" ELSE str \o "_"

\* the name of parameter kw of signal sig on group g of pulsar p: a
\* pre-initialized parameter keeps its name, any other gets a
\* pulsar- (and backend-, and signal-) specific one
ParName(p, g, sig, k) ==
    IF k.prm.name # "" THEN k.prm.name
    ELSE Prefix(p.name) \o Prefix(g) \o Prefix(sig.signame) \o k.kw

\* the parameters of signal sig on pulsar p; sig and kw keep which signal
\* and keyword the parameter was given for
SignalParams(sig, p) ==
    {[cls |-> k.prm.cls, lo |-> k.prm.lo, hi |-> k.prm.hi, value |-> k.prm.value,
      size |-> k.prm.size, name |-> ParName(p, g, sig, k),
      sig |-> sig.name, kw |-> k.kw] :
        <<g, k>> \in Groups(sig.selection, p) \X Range(sig.pars)}

\* s(p)
Instantiate(coll, p) ==
    [psr     |-> p.name,
     signals |-> [i \in DOMAIN coll |-> coll[i].name],
     params  |-> UNION {SignalParams(coll[i], p) : i \in DOMAIN coll}]

ModelSignals(m) == Range(m.signals)

-----------------------------------------------------------------------------
(* The noise directory: JSON files of white-noise values *)

Backends == {"NANOGrav", "PPTA"}

\* the keys a noise file of pulsar n lists
WNKeys(n) ==
    {n \o "_" \o b \o "_" \o k : <<b, k>> \in Backends \X {"efac", "log10_equad"}}
    \cup {n \o "_NANOGrav_log10_ecorr"}

\* a noise file of pulsar n whose values all carry the version number v
NoiseFile(file, n, v) ==
    [file |-> file, dict |-> [k \in WNKeys(n) |-> v]]

\* file names of the noise directory, in sorted() order
NoiseFileOrder ==
    <<"J0437-4715_noise.json", "J0437-4715_noise_b.json",
      "J1713+0747_noise.json", "J1909-3744_noise.json">>

\* the noise directories the model is run on: none, one file per pulsar,
\* and a directory with two files for one pulsar and none for another
NoiseDirs ==
    { {},
      { NoiseFile("J0437-4715_noise.json", "J0437-4715", 1),
        NoiseFile("J1713+0747_noise.json", "J1713+0747", 1),
        NoiseFile("J1909-3744_noise.json", "J1909-3744", 1) },
      { NoiseFile("J0437-4715_noise.json", "J0437-4715", 1),
        NoiseFile("J0437-4715_noise_b.json", "J0437-4715", 2),
        NoiseFile("J1713+0747_noise.json", "J1713+0747", 1) } }

EmptyDict == [k \in {} |-> 0]

\* keeps the value a key already has
MutKeepFirst(d, e) ==
    [k \in DOMAIN d \cup DOMAIN e |-> IF k \in DOMAIN d THEN d[k] ELSE e[k]]

\* dict.update
Update(d, e) ==
    [k \in DOMAIN d \cup DOMAIN e |-> IF k \in DOMAIN e THEN e[k] ELSE d[k]]

RECURSIVE UpdateAll(_, _)
\* params = {}; for nf in noisefiles: params.update(json.load(nf))
UpdateAll(d, files) ==
    IF files = <<>> THEN d
    ELSE UpdateAll(Update(d, Head(files).dict), Tail(files))

-----------------------------------------------------------------------------
(* signal_base.PTA *)

NoPTA == <<>>

\* signal_base.PTA(models); orf names the spatial correlation of its
\* common process ("" for none)
PTA(id, mods, orf) == [id |-> id, models |-> mods, orf |-> orf, defaults |-> FALSE]

AllParams(P) == UNION {P.models[i].params : i \in DOMAIN P.models}

\* pta.set_default_params(params): every Constant whose name the dictionary
\* lists takes the listed value
SetDefaultParams(P, d) ==
    [P EXCEPT !.defaults = TRUE, !.models =
        [i \in DOMAIN @ |->
            [@[i] EXCEPT !.params =
                {IF q.cls = "Constant" /\ q.name \in DOMAIN d
                 THEN [q EXCEPT !.value = <<d[q.name]>>] ELSE q : q \in @}]]]

\* names in sorted() order: per pulsar the backend-specific names, then the
\* signal-specific ones; then the names in common
PsrSuffixOrder ==
    <<"NANOGrav_efac", "NANOGrav_log10_ecorr", "NANOGrav_log10_equad",
      "PPTA_efac", "PPTA_log10_ecorr", "PPTA_log10_equad",
      "dm_gp_gamma", "dm_gp_log10_A",
      "dm_s1yr_idx", "dm_s1yr_log10_Amp", "dm_s1yr_phase",
      "dmexp_idx", "dmexp_log10_Amp", "dmexp_log10_tau", "dmexp_t0",
      "gamma", "gw_gamma", "gw_log10_A", "log10_A">>

CommonOrder ==
    <<"d_jupiter_mass", "d_neptune_mass", "d_saturn_mass", "d_uranus_mass",
      "frame_drift_rate", "gamma_gw", "jup_orb_elements", "log10_A_gw">>

RECURSIVE PsrNameOrder(_)
PsrNameOrder(names) ==
    IF names = <<>> THEN <<>>
    ELSE [i \in DOMAIN PsrSuffixOrder |-> Head(names) \o "_" \o PsrSuffixOrder[i]]
         \o PsrNameOrder(Tail(names))

NameOrder == PsrNameOrder(SortedNames) \o CommonOrder

\* the sampled (non-Constant) parameters of a PTA, each name once, sorted
PtaParams(P) ==
    LET sampled == {q \in AllParams(P) : q.cls # "Constant"}
        names   == {q.name : q \in sampled}
        order   == SelectSeq(NameOrder, LAMBDA n : n \in names)
    IN  [i \in DOMAIN order |-> CHOOSE q \in sampled : q.name = order[i]]

\* the entries p.sample() contributes to a parameter vector
Labels(q) ==
    IF q.size = 1 THEN <<q.name>>
    ELSE [i \in 1..q.size |-> q.name \o "_" \o ToString(i - 1)]

RECURSIVE Flatten(_)
Flatten(seqs) == IF seqs = <<>> THEN <<>> ELSE Head(seqs) \o Flatten(Tail(seqs))

\* the meaning of the entries of a parameter vector of P, in order
VectorNames(P) ==
    LET ps == PtaParams(P) IN Flatten([i \in DOMAIN ps |-> Labels(ps[i])])

\* np.hstack(p.sample() for p in pta.params)
DrawFromPrior(P) == [of |-> {P.id}, entries |-> VectorNames(P)]

NoVector == [of |-> {}, entries |-> <<>>]

-----------------------------------------------------------------------------
(* enterprise_extensions: model_general and HyperModel *)

\* upper_limit=False: uniform priors on the log-amplitudes
Detection(m) ==
    [m EXCEPT !.params =
        {IF q.cls = "LinearExp" THEN [q EXCEPT !.cls = "Uniform"] ELSE q : q \in @}]

\* models.model_general(psrs, noisedict=params, upper_limit=..., orf=...):
\* the model of the verbose version without the annual term and the
\* exponential dip, white noise set from noisedict
model_general(id, pulsars, noisedict, upper_limit, orf) ==
    LET m(p) == Instantiate(IF "NANOGrav" \in p.flags
                            THEN Add(FullModel, ec) ELSE FullModel, p)
    IN  SetDefaultParams(
            PTA(id,
                [i \in DOMAIN pulsars |->
                    IF upper_limit THEN m(pulsars[i]) ELSE Detection(m(pulsars[i]))],
                orf),
            noisedict)

NoHyper == [models |-> <<>>, param_names |-> <<>>]

RECURSIVE UniqueConcat(_, _)
\* the entries of the sequences, each at its first occurrence
UniqueConcat(acc, seqs) ==
    IF seqs = <<>> THEN acc
    ELSE UniqueConcat(acc \o SelectSeq(Head(seqs), LAMBDA n : n \notin Range(acc)),
                      Tail(seqs))

\* model_utils.HyperModel(models): the models' parameter names, each once,
\* then the model index nmodel
HyperModel(ptas) ==
    [models |-> ptas,
     param_names |->
        Append(UniqueConcat(<<>>, [i \in DOMAIN ptas |-> VectorNames(ptas[i])]),
               "nmodel")]

\* super_model.initial_sample()
InitialSample(hm) ==
    [of |-> {hm.models[i].id : i \in DOMAIN hm.models}, entries |-> hm.param_names]

-----------------------------------------------------------------------------
(* PTMCMCSampler and the files of the output directory *)

outdir == "./chains/ipta_dr2_ng_ppta_gwb/"

MutResume == TRUE

\* resume=False, in all four constructions
Resume == FALSE

NoSampler ==
    [status |-> "none", run |-> 0, ndim |-> 0, of |-> {}, names |-> <<>>,
     cov |-> [n |-> 0, diag |-> ""], outDir |-> "", resume |-> FALSE]

\* ptmcmc(ndim, lnlike, lnprior, cov, outDir=..., resume=...): names is the
\* meaning the likelihood gives to the entries of the vectors it is called on
PTSampler(run, n, of, names, c, dir, resume) ==
    [status |-> "ready", run |-> run, ndim |-> n, of |-> of, names |-> names,
     cov |-> c, outDir |-> dir, resume |-> resume]

\* the auxiliary columns the sampler writes after the parameter columns
AuxColumns == <<"lnpost", "lnlike", "acceptance", "pt_acceptance">>

\* writers: the runs that have written rows of the file
NoFile == [exists |-> FALSE, run |-> 0, cols |-> <<>>, nrows |-> 0, writers |-> {}]

\* chain_1.txt as opened by a run
ChainFile(sm, old) ==
    IF sm.resume /\ old.exists
    THEN old
    ELSE [exists |-> TRUE, run |-> sm.run, cols |-> sm.names \o AuxColumns, nrows |-> 0,
          writers |-> {}]

NoPars == [exists |-> FALSE, run |-> 0, names |-> <<>>]

-----------------------------------------------------------------------------
(* The cells of the notebook, top to bottom *)

MutSamplerBeforeNoise ==
    <<"glob_partim", "load_pulsars", "glob_noise", "load_noise", "tspan",
      "selections", "parameters", "signals", "full_model", "init_pta",
      "draw_x0", "setup_sampler", "set_white", "sample", "load_chain",
      "hist", "upper", "def_dip", "def_annual", "full_model2", "init_pta2",
      "set_white2", "draw_x0_2", "setup_sampler2", "sample2",
      "import_ext", "model_general", "hyper", "setup_sampler3",
      "initial_sample3", "sample3", "read_chain3", "hist3", "ul3",
      "pta_dict", "hyper4", "setup_sampler4", "initial_sample4", "sample4",
      "post4", "hist4", "hist_model4", "bayes_fac", "odds_ratio">>

MutNoSecondDraw ==
    <<"glob_partim", "load_pulsars", "glob_noise", "load_noise", "tspan",
      "selections", "parameters", "signals", "full_model", "init_pta",
      "set_white", "draw_x0", "setup_sampler", "sample", "load_chain",
      "hist", "upper", "def_dip", "def_annual", "full_model2", "init_pta2",
      "set_white2", "setup_sampler2", "sample2",
      "import_ext", "model_general", "hyper", "setup_sampler3",
      "initial_sample3", "sample3", "read_chain3", "hist3", "ul3",
      "pta_dict", "hyper4", "setup_sampler4", "initial_sample4", "sample4",
      "post4", "hist4", "hist_model4", "bayes_fac", "odds_ratio">>

CellOrder ==
    <<"glob_partim", "load_pulsars", "glob_noise", "load_noise", "tspan",
      "selections", "parameters", "signals", "full_model", "init_pta",
      "set_white", "draw_x0", "setup_sampler", "sample", "load_chain",
      "hist", "upper", "def_dip", "def_annual", "full_model2", "init_pta2",
      "set_white2", "draw_x0_2", "setup_sampler2", "sample2",
      "import_ext", "model_general", "hyper", "setup_sampler3",
      "initial_sample3", "sample3", "read_chain3", "hist3", "ul3",
      "pta_dict", "hyper4", "setup_sampler4", "initial_sample4", "sample4",
      "post4", "hist4", "hist_model4", "bayes_fac", "odds_ratio">>

\* the cell about to run
Cell == IF pc \in DOMAIN CellOrder THEN CellOrder[pc] ELSE ""

At(c) == Cell = c

\* the cell ran to its end: go on to the next one
Goto == pc' = pc + 1

\* the cell raised: the run of the notebook stops there
Raise == pc' = 0

\* which of the four analyses a cell belongs to
Analysis(c) ==
    IF c \in {"init_pta", "set_white", "draw_x0", "setup_sampler", "sample",
              "load_chain", "hist", "upper"} THEN 1
    ELSE IF c \in {"init_pta2", "set_white2", "draw_x0_2", "setup_sampler2",
                   "sample2"} THEN 2
    ELSE IF c \in {"model_general", "hyper", "setup_sampler3", "initial_sample3",
                   "sample3", "read_chain3", "hist3", "ul3"} THEN 3
    ELSE IF c \in {"pta_dict", "hyper4", "setup_sampler4", "initial_sample4",
                   "sample4", "post4", "hist4", "hist_model4", "bayes_fac",
                   "odds_ratio"} THEN 4
    ELSE 0

-----------------------------------------------------------------------------
(* Inputs and the initial state *)

\* the 'pta' flags of the TOAs of each pulsar: as psrdict lists them, and
\* two other assignments
FlagScenarios ==
    { [n \in AllNames |->
          IF n = "J0437-4715" THEN {"PPTA"} ELSE {"NANOGrav", "PPTA"}],
      [n \in AllNames |->
          IF n = "J1713+0747" THEN {"PPTA"} ELSE {"NANOGrav"}],
      [n \in AllNames |->
          IF n = "J1713+0747" THEN {"NANOGrav"}
          ELSE IF n = "J0437-4715" THEN {"NANOGrav", "PPTA"} ELSE {"PPTA"}] }

\* the pulsars a distance is found for: all of them, or only some
DistScenarios == {AllNames, {"J1909-3744", Unlisted}}

\* the data directories the model is run on: any of the listed pulsars may
\* lack its par file, its tim file or both; the unlisted pulsar has both
DataDirs ==
    {[par |-> P \cup {Unlisted},
      tim |-> [n \in AllNames |-> IF n \in T \cup {Unlisted} THEN F[n] ELSE {}],
      dist |-> D] :
        P \in SUBSET psrlist, T \in SUBSET psrlist, F \in FlagScenarios,
        D \in DistScenarios}

NoChain == [loaded |-> FALSE, run |-> 0, cols |-> <<>>, nrows |-> 0, writers |-> {}]

\* out is the output of the statistic computed last
NoOutput == [stat |-> "", run |-> 0, column |-> "", rows |-> {}, filter |-> ""]

NoWave == [fn |-> "none"]

InitNotebook ==
    /\ parfiles = <<>> /\ timfiles = <<>> /\ psrs = <<>> /\ warnings = <<>>
    /\ noisefiles = <<>> /\ params = EmptyDict
    /\ s = <<>> /\ models = <<>> /\ pta = NoPTA /\ super_model = NoHyper
    /\ x0 = NoVector /\ ndim = 0 /\ cov = [n |-> 0, diag |-> ""]
    /\ sampler = NoSampler
    /\ chainfile = NoFile /\ parsfile = NoPars
    /\ chain = NoChain /\ burn = 0 /\ pars = <<>> /\ ind = EmptyDict
    /\ out = NoOutput

Init ==
    /\ pc = 1
    /\ datadir \in DataDirs
    /\ noisedir \in NoiseDirs
    /\ InitNotebook
    /\ wave = NoWave

-----------------------------------------------------------------------------
(* Loading the data *)

\* x.split('/')[-1].split('.')[0] of a file <pulsar>.<ext>
FilePrefix(f) == f.stem

\* parfiles, timfiles = sorted(glob(...)), filtered by psrlist
GlobParTim ==
    /\ At("glob_partim")
    /\ parfiles' = SelectSeq(SortedGlob(datadir.par, "par"),
                             LAMBDA x : FilePrefix(x) \in psrlist)
    /\ timfiles' = SelectSeq(SortedGlob({n \in AllNames : datadir.tim[n] # {}}, "tim"),
                             LAMBDA x : FilePrefix(x) \in psrlist)
    /\ Goto
    /\ UNCHANGED <<datadir, noisedir, psrs, warnings, noisefiles, params>>
    /\ UNCHANGED <<modelVars, runVars, postVars, wave>>

\* the distance given to a pulsar no distance is found for
DefaultDistance == [value |-> "1 kpc", uncertainty |-> "20%"]

\* the distance of a pulsar: the one found for its name, else the default
PulsarDistance(name) ==
    IF name \in datadir.dist
    THEN [value |-> "found", uncertainty |-> "found"]
    ELSE DefaultDistance

\* a pulsar without a distance keeps none
MutPulsarNoDefault(p, t) ==
    [name |-> p.stem, flags |-> datadir.tim[t.stem],
     pdist |-> IF p.stem \in datadir.dist THEN PulsarDistance(p.stem)
               ELSE [value |-> "none", uncertainty |-> "none"]]

\* Pulsar(p, t, ...): the name comes from the par file, the TOAs and their
\* flags from the tim file
Pulsar(p, t) ==
    [name |-> p.stem, flags |-> datadir.tim[t.stem], pdist |-> PulsarDistance(p.stem)]

\* WARNING: Could not find pulsar distance for PSR ...
Warned(pulsars) ==
    LET missing == SelectSeq(pulsars, LAMBDA q : q.name \notin datadir.dist)
    IN  [i \in DOMAIN missing |-> missing[i].name]

\* parfiles[:2], timfiles[:2]
NLoad == 2

\* for p, t in zip(parfiles[:2], timfiles[:2]): psrs.append(Pulsar(p, t))
LoadPulsars ==
    /\ At("load_pulsars")
    /\ LET ps == Take(parfiles, NLoad)
           ts == Take(timfiles, NLoad)
       IN  psrs' = [i \in 1..Min(Len(ps), Len(ts)) |-> Pulsar(ps[i], ts[i])]
    /\ warnings' = Warned(psrs')
    /\ Goto
    /\ UNCHANGED <<datadir, noisedir, parfiles, timfiles, noisefiles, params>>
    /\ UNCHANGED <<modelVars, runVars, postVars, wave>>

\* noisefiles = sorted(glob.glob('.../*.json'))
GlobNoise ==
    /\ At("glob_noise")
    /\ noisefiles' =
          LET names == SelectSeq(NoiseFileOrder,
                                 LAMBDA f : \E nf \in noisedir : nf.file = f)
          IN  [i \in DOMAIN names |-> CHOOSE nf \in noisedir : nf.file = names[i]]
    /\ Goto
    /\ UNCHANGED <<datadir, noisedir, parfiles, timfiles, psrs, warnings, params>>
    /\ UNCHANGED <<modelVars, runVars, postVars, wave>>

\* params = {}; for nf in noisefiles: params.update(json.load(fin))
LoadNoise ==
    /\ At("load_noise")
    /\ params' = UpdateAll(EmptyDict, noisefiles)
    /\ Goto
    /\ UNCHANGED <<datadir, noisedir, parfiles, timfiles, psrs, warnings, noisefiles>>
    /\ UNCHANGED <<modelVars, runVars, postVars, wave>>

\* Tspan = np.max(tmax) - np.min(tmin): np.max of an empty list raises
TspanCell ==
    /\ At("tspan")
    /\ IF psrs = <<>> THEN Raise ELSE Goto
    /\ UNCHANGED <<loadVars, modelVars, runVars, postVars, wave>>

\* cells that only bind names to objects that do not depend on the data:
\* the selections, the parameters, the signals and the two custom signals
DefCells == {"selections", "parameters", "signals", "def_dip", "def_annual"}

Define ==
    /\ Cell \in DefCells
    /\ Goto
    /\ UNCHANGED <<loadVars, modelVars, runVars, postVars, wave>>

-----------------------------------------------------------------------------
(* The verbose models *)

\* s = ef + eq + rn + dm_gp + tm + eph + gw
FullModelCell ==
    /\ At("full_model")
    /\ s' = FullModel
    /\ Goto
    /\ UNCHANGED <<models, pta, super_model>>
    /\ UNCHANGED <<loadVars, runVars, postVars, wave>>

MutEcorrForAll(coll, pulsars) ==
    [i \in DOMAIN pulsars |-> Instantiate(Add(coll, ec), pulsars[i])]

\* models = []; for p in psrs: ecorr only for NANOGrav pulsars
FirstModels(coll, pulsars) ==
    [i \in DOMAIN pulsars |->
        IF "NANOGrav" \in pulsars[i].flags
        THEN LET s2 == Add(coll, ec) IN Instantiate(s2, pulsars[i])
        ELSE Instantiate(coll, pulsars[i])]

\* intialize PTA, adding ecorr only for NANOGrav pulsars
InitPTA ==
    /\ At("init_pta")
    /\ models' = FirstModels(s, psrs)
    /\ pta' = <<PTA(1, models', "")>>
    /\ Goto
    /\ UNCHANGED <<s, super_model>>
    /\ UNCHANGED <<loadVars, runVars, postVars, wave>>

MutNoAnnual == FullModel

\* s = ef + eq + rn + dm_gp + tm + eph + gw; s += dm_annual_signal()
SecondModel == Add(FullModel, dm_annual_signal("2", "dm_s1yr"))

FullModel2Cell ==
    /\ At("full_model2")
    /\ s' = SecondModel
    /\ Goto
    /\ UNCHANGED <<models, pta, super_model>>
    /\ UNCHANGED <<loadVars, runVars, postVars, wave>>

\* models = []; for p in psrs: ecorr for NANOGrav pulsars and, among
\* these, the exponential dip for J1713+0747
SecondModels(coll, pulsars) ==
    [i \in DOMAIN pulsars |->
        IF "NANOGrav" \in pulsars[i].flags
        THEN LET s2 == Add(coll, ec)
             IN  IF pulsars[i].name = "J1713+0747"
                 THEN LET s3 == Add(s2, dm_exponential_dip("np.min(tmin)/86400.0",
                                                           "np.max(tmax)/86400.0",
                                                           "2", "dmexp"))
                      IN  Instantiate(s3, pulsars[i])
                 ELSE Instantiate(s2, pulsars[i])
        ELSE Instantiate(coll, pulsars[i])]

\* add a DM exponential dip for J1713+0747
InitPTA2 ==
    /\ At("init_pta2")
    /\ models' = SecondModels(s, psrs)
    /\ pta' = <<PTA(2, models', "")>>
    /\ Goto
    /\ UNCHANGED <<s, super_model>>
    /\ UNCHANGED <<loadVars, runVars, postVars, wave>>

\* pta.set_default_params(params): the models in the list models are the
\* objects the PTA holds, so the values show in both
SetWhite ==
    /\ Cell \in {"set_white", "set_white2"}
    /\ pta' = <<SetDefaultParams(pta[1], params)>>
    /\ models' = pta'[1].models
    /\ Goto
    /\ UNCHANGED <<s, super_model>>
    /\ UNCHANGED <<loadVars, runVars, postVars, wave>>

\* x0 = np.hstack(p.sample() for p in pta.params); ndim = len(x0)
DrawX0 ==
    /\ Cell \in {"draw_x0", "draw_x0_2"}
    /\ x0' = DrawFromPrior(pta[1])
    /\ ndim' = Len(x0'.entries)
    /\ Goto
    /\ UNCHANGED <<cov, sampler, chainfile, parsfile>>
    /\ UNCHANGED <<loadVars, modelVars, postVars, wave>>

\* cov = np.diag(np.ones(ndim) * 0.01**2); sampler = ptmcmc(ndim, ...,
\* outDir='./chains/ipta_dr2_ng_ppta_gwb/', resume=False)
SetupSampler ==
    /\ Cell \in {"setup_sampler", "setup_sampler2"}
    /\ cov' = [n |-> ndim, diag |-> "0.01**2"]
    /\ sampler' = PTSampler(Analysis(Cell), ndim, {pta[1].id}, VectorNames(pta[1]),
                            cov', outdir, Resume)
    /\ Goto
    /\ UNCHANGED <<x0, ndim, chainfile, parsfile>>
    /\ UNCHANGED <<loadVars, modelVars, postVars, wave>>

-----------------------------------------------------------------------------
(* sampler.sample(x0, N, ...): a blocking call.  The cell starts the run,   *)
(* the run writes rows to chain_1.txt, and the cell ends when the call      *)
(* returns.                                                                 *)

SampleCells == {"sample", "sample2", "sample3", "sample4"}

\* the cells that draw x0 anew before the call:
\* x0 = np.hstack(p.sample() for p in pta.params)
RedrawCells == {"sample", "sample2"}

SampleStart ==
    /\ Cell \in SampleCells
    /\ sampler.status = "ready"
    /\ x0' = IF Cell \in RedrawCells THEN DrawFromPrior(pta[1]) ELSE x0
    /\ IF Len(x0'.entries) = sampler.ndim
       THEN /\ sampler' = [sampler EXCEPT !.status = "running"]
            /\ chainfile' = ChainFile(sampler, chainfile)
            /\ pc' = pc
       ELSE /\ Raise
            /\ UNCHANGED <<sampler, chainfile>>
    /\ UNCHANGED <<ndim, cov, parsfile>>
    /\ UNCHANGED <<loadVars, modelVars, postVars, wave>>

\* the running sampler appends a row to the chain file
SampleWrite ==
    /\ Cell \in SampleCells
    /\ sampler.status = "running"
    /\ chainfile.nrows < MaxRows
    /\ chainfile' = [chainfile EXCEPT !.nrows = @ + 1, !.writers = @ \cup {sampler.run}]
    /\ UNCHANGED <<pc, x0, ndim, cov, sampler, parsfile>>
    /\ UNCHANGED <<loadVars, modelVars, postVars, wave>>

\* the call returns after its N steps
SampleReturn ==
    /\ Cell \in SampleCells
    /\ sampler.status = "running"
    /\ chainfile.nrows >= 1
    /\ sampler' = [sampler EXCEPT !.status = "returned"]
    /\ Goto
    /\ UNCHANGED <<x0, ndim, cov, chainfile, parsfile>>
    /\ UNCHANGED <<loadVars, modelVars, postVars, wave>>

-----------------------------------------------------------------------------
(* Post-processing of the first analysis *)

\* np.loadtxt(chain_1.txt)
LoadTxt(f) ==
    [loaded |-> TRUE, run |-> f.run, cols |-> f.cols, nrows |-> f.nrows,
     writers |-> f.writers]

MutNoBurn(ch) == 0

\* int(0.25 * chain.shape[0])
Burn(ch) == ch.nrows \div 4

\* the position in a sequence that a Python index names (0 when out of range)
PyIndex(seq, i) ==
    LET k == IF i < 0 THEN Len(seq) + i + 1 ELSE i + 1
    IN  IF k \in DOMAIN seq THEN k ELSE 0

\* chain[burn:, i]: the rows and the column a statistic is computed from
Slice(ch, b, i) ==
    [run |-> ch.run, column |-> ch.cols[PyIndex(ch.cols, i)],
     rows |-> {r \in 0..(ch.nrows - 1) : r >= b}]

Output(stat, sl, filter) ==
    [stat |-> stat, run |-> sl.run, column |-> sl.column, rows |-> sl.rows,
     filter |-> filter]

\* chain = np.loadtxt('./chains/ipta_dr2_ng_ppta_gwb/chain_1.txt');
\* burn = int(0.25 * chain.shape[0])
LoadChain ==
    /\ At("load_chain")
    /\ IF chainfile.exists
       THEN /\ chain' = LoadTxt(chainfile)
            /\ burn' = Burn(chain')
            /\ Goto
       ELSE /\ Raise
            /\ UNCHANGED <<chain, burn>>
    /\ UNCHANGED <<pars, ind, out>>
    /\ UNCHANGED <<loadVars, modelVars, runVars, wave>>

\* the column before the last four
MutFourthFromLast == 1 - 5

\* the fixed column of the first analysis: chain[burn:, -5]
FixedColumn == -5

\* plt.hist(chain[burn:,-5], ...) and upper = 10**np.percentile(chain[burn:, -5], q=95)
FirstStatistics ==
    /\ Cell \in {"hist", "upper"}
    /\ IF PyIndex(chain.cols, FixedColumn) # 0
       THEN /\ out' = Output(Cell, Slice(chain, burn, FixedColumn), "")
            /\ Goto
       ELSE /\ Raise
            /\ UNCHANGED out
    /\ UNCHANGED <<chain, burn, pars, ind>>
    /\ UNCHANGED <<loadVars, modelVars, runVars, wave>>

-----------------------------------------------------------------------------
(* The easy way: model_general, HyperModel, and their post-processing *)

\* from enterprise_extensions import models, model_utils: the name models
\* no longer names the list of per-pulsar models
ImportExt ==
    /\ At("import_ext")
    /\ models' = <<>>
    /\ Goto
    /\ UNCHANGED <<s, pta, super_model>>
    /\ UNCHANGED <<loadVars, runVars, postVars, wave>>

\* pta = models.model_general(psrs, ..., noisedict=params, upper_limit=True, ...)
ModelGeneralCell ==
    /\ At("model_general")
    /\ pta' = <<model_general(3, psrs, params, TRUE, "")>>
    /\ Goto
    /\ UNCHANGED <<s, models, super_model>>
    /\ UNCHANGED <<loadVars, runVars, postVars, wave>>

\* pta = dict.fromkeys(mod_index); pta[0] = model_general(...);
\* pta[1] = model_general(..., orf='hd', ...): the dictionary is held as the
\* sequence of its values, key k at position k + 1
PtaDictCell ==
    /\ At("pta_dict")
    /\ pta' = <<model_general(4, psrs, params, FALSE, ""),
                model_general(5, psrs, params, FALSE, "hd")>>
    /\ Goto
    /\ UNCHANGED <<s, models, super_model>>
    /\ UNCHANGED <<loadVars, runVars, postVars, wave>>

\* super_model = model_utils.HyperModel({0: pta}) and
\* super_model = model_utils.HyperModel(pta)
HyperModelCell ==
    /\ Cell \in {"hyper", "hyper4"}
    /\ super_model' = HyperModel(pta)
    /\ Goto
    /\ UNCHANGED <<s, models, pta>>
    /\ UNCHANGED <<loadVars, runVars, postVars, wave>>

\* sampler = super_model.setup_sampler(resume=False, outdir=outdir): builds
\* the sampler and writes pars.txt
HyperSetupSampler ==
    /\ Cell \in {"setup_sampler3", "setup_sampler4"}
    /\ sampler' = PTSampler(Analysis(Cell), Len(super_model.param_names),
                            {super_model.models[i].id : i \in DOMAIN super_model.models},
                            super_model.param_names,
                            [n |-> Len(super_model.param_names), diag |-> "setup_sampler"],
                            outdir, Resume)
    /\ parsfile' = [exists |-> TRUE, run |-> Analysis(Cell),
                    names |-> super_model.param_names]
    /\ Goto
    /\ UNCHANGED <<x0, ndim, cov, chainfile>>
    /\ UNCHANGED <<loadVars, modelVars, postVars, wave>>

\* x0 = super_model.initial_sample()
InitialSampleCell ==
    /\ Cell \in {"initial_sample3", "initial_sample4"}
    /\ x0' = InitialSample(super_model)
    /\ Goto
    /\ UNCHANGED <<ndim, cov, sampler, chainfile, parsfile>>
    /\ UNCHANGED <<loadVars, modelVars, postVars, wave>>

\* chain = np.loadtxt(outdir + '/chain_1.txt'); burn = int(0.25*chain.shape[0]);
\* pars = np.loadtxt(outdir + '/pars.txt', dtype=np.unicode_)
ReadChainAndPars ==
    /\ Cell \in {"read_chain3", "post4"}
    /\ IF chainfile.exists /\ parsfile.exists
       THEN /\ chain' = LoadTxt(chainfile)
            /\ burn' = Burn(chain')
            /\ pars' = parsfile.names
            /\ Goto
       ELSE /\ Raise
            /\ UNCHANGED <<chain, burn, pars>>
    /\ UNCHANGED <<ind, out>>
    /\ UNCHANGED <<loadVars, modelVars, runVars, wave>>

\* list(pars).index(name): the 0-based position of the first occurrence,
\* -1 standing for the ValueError raised when there is none
ListIndex(names, name) ==
    IF name \in Range(names)
    THEN (CHOOSE i \in DOMAIN names :
             names[i] = name /\ \A j \in 1..(i - 1) : names[j] # name) - 1
    ELSE -1

Bind(d, var, val) == Update(d, [k \in {var} |-> val])

MutFixedColumnAgain(names) == FixedColumn

\* ind = list(pars).index('log10_A_gw')
GwIndex(names) == ListIndex(names, "log10_A_gw")

\* ind_model = list(pars).index('nmodel')
ModelIndex(names) == ListIndex(names, "nmodel")

\* ind = list(pars).index('log10_A_gw'); plt.hist(chain[burn:,ind], bins=40)
Hist3 ==
    /\ At("hist3")
    /\ LET i == GwIndex(pars)
       IN  IF i # -1 /\ PyIndex(chain.cols, i) # 0
           THEN /\ ind' = Bind(ind, "ind", i)
                /\ out' = Output("hist3", Slice(chain, burn, i), "")
                /\ Goto
           ELSE /\ Raise
                /\ UNCHANGED <<ind, out>>
    /\ UNCHANGED <<chain, burn, pars>>
    /\ UNCHANGED <<loadVars, modelVars, runVars, wave>>

\* print model_utils.ul(chain[burn:, ind], q=95.0)
UpperLimit3 ==
    /\ At("ul3")
    /\ out' = Output("ul3", Slice(chain, burn, ind["ind"]), "")
    /\ Goto
    /\ UNCHANGED <<chain, burn, pars, ind>>
    /\ UNCHANGED <<loadVars, modelVars, runVars, wave>>

\* chain_burn = chain[burn:,:]; ind_model = ...; ind_gwamp = ...;
\* plt.hist(chain_burn[chain_burn[:, ind_model] > 0.5, ind_gwamp], bins=40)
Hist4 ==
    /\ At("hist4")
    /\ LET im == ModelIndex(pars)
           ig == GwIndex(pars)
       IN  IF im # -1 /\ ig # -1 /\ PyIndex(chain.cols, im) # 0
                /\ PyIndex(chain.cols, ig) # 0
           THEN /\ ind' = Bind(Bind(ind, "ind_model", im), "ind_gwamp", ig)
                /\ out' = Output("hist4", Slice(chain, burn, ig),
                                             Slice(chain, burn, im).column)
                /\ Goto
           ELSE /\ Raise
                /\ UNCHANGED <<ind, out>>
    /\ UNCHANGED <<chain, burn, pars>>
    /\ UNCHANGED <<loadVars, modelVars, runVars, wave>>

\* plt.hist(chain_burn[:, ind_model], bins=40) and
\* print model_utils.odds_ratio(chain_burn[:, ind_model], models=[0,1])
ModelStatistics ==
    /\ Cell \in {"hist_model4", "odds_ratio"}
    /\ out' = Output(Cell, Slice(chain, burn, ind["ind_model"]), "")
    /\ Goto
    /\ UNCHANGED <<chain, burn, pars, ind>>
    /\ UNCHANGED <<loadVars, modelVars, runVars, wave>>

\* print model_utils.bayes_fac(chain_burn[chain_burn[:, ind_model] < 0.5, ind_gwamp], ntol=1)
BayesFac ==
    /\ At("bayes_fac")
    /\ out' = Output("bayes_fac", Slice(chain, burn, ind["ind_gwamp"]),
                                 Slice(chain, burn, ind["ind_model"]).column)
    /\ Goto
    /\ UNCHANGED <<chain, burn, pars, ind>>
    /\ UNCHANGED <<loadVars, modelVars, runVars, wave>>

-----------------------------------------------------------------------------
(* The run of the notebook *)

Next ==
    \/ GlobParTim
    \/ LoadPulsars
    \/ GlobNoise
    \/ LoadNoise
    \/ TspanCell
    \/ Define
    \/ FullModelCell
    \/ InitPTA
    \/ FullModel2Cell
    \/ InitPTA2
    \/ SetWhite
    \/ DrawX0
    \/ SetupSampler
    \/ SampleStart
    \/ SampleWrite
    \/ SampleReturn
    \/ LoadChain
    \/ FirstStatistics
    \/ ImportExt
    \/ ModelGeneralCell
    \/ PtaDictCell
    \/ HyperModelCell
    \/ HyperSetupSampler
    \/ InitialSampleCell
    \/ ReadChainAndPars
    \/ Hist3
    \/ UpperLimit3
    \/ Hist4
    \/ ModelStatistics
    \/ BayesFac

Spec == Init /\ [][Next]_vars

-----------------------------------------------------------------------------
(* The two waveform functions.  Numbers are exact rationals in lowest      *)
(* terms; np.exp and np.sin are tabulated in thousandths.                  *)

Abs(x) == IF x < 0 THEN -x ELSE x

RECURSIVE GCD(_, _)
GCD(a, b) == IF b = 0 THEN a ELSE GCD(b, a % b)

\* the rational n/d in lowest terms, d > 0
Rat(n, d) ==
    LET g == GCD(Abs(n), Abs(d))
        sg == IF d < 0 THEN -1 ELSE 1
    IN  [num |-> sg * (n \div g), den |-> sg * (d \div g)]

RMul(a, b) == Rat(a.num * b.num, a.den * b.den)

RNeg(a) == [num |-> -a.num, den |-> a.den]

RECURSIVE RPow(_, _)
\* a ** n for a natural number n
RPow(a, n) == IF n = 0 THEN Rat(1, 1) ELSE RMul(a, RPow(a, n - 1))

\* 10 ** a for an integer a
Pow10(a) == IF a >= 0 THEN RPow(Rat(10, 1), a) ELSE RPow(Rat(1, 10), -a)

\* const.day: seconds in a day
day == 86400

MutHeavisideStrict(x, h0) == IF x > 0 THEN 1 ELSE 0

\* np.heaviside(x, h0): 0 below 0, h0 at 0, 1 above
heaviside(x, h0) == IF x < 0 THEN 0 ELSE IF x = 0 THEN h0 ELSE 1

\* np.exp(-n/d) in thousandths, rounded down, for d > 0: exactly 1 at 0,
\* below 1 for n > 0 (by 1/(1 + x)) and above 1 for n < 0 (by 1 + x)
ExpNeg(n, d) ==
    IF n >= 0 THEN Rat((1000 * d) \div (d + n), 1000)
    ELSE Rat(1000 + (1000 * (-n)) \div d, 1000)

\* 1400 / freqs under from __future__ import division
TrueDiv(a, b) == Rat(a, b)

\* chrom_exp_decay(toas, freqs, log10_Amp, t0, log10_tau, idx): toas in
\* seconds, t0 in days (MJD), freqs in MHz
chrom_exp_decay(toas, freqs, log10_Amp, t0, log10_tau, idx) ==
    LET t0s == t0 * day
        tau == RMul(Pow10(log10_tau), Rat(day, 1))
        wf  == RMul(RMul(RNeg(Pow10(log10_Amp)), Rat(heaviside(toas - t0s, 1), 1)),
                    ExpNeg((toas - t0s) * tau.den, tau.num))
    IN  RMul(wf, RPow(TrueDiv(1400, freqs), idx))

\* np.sin in thousandths at the multiples of 1/24 of a turn
SinTable ==
    <<0, 259, 500, 707, 866, 966, 1000, 966, 866, 707, 500, 259,
      0, -259, -500, -707, -866, -966, -1000, -966, -866, -707, -500, -259>>

\* 2 * np.pi, in 24ths of a turn
TwoPi == Len(SinTable)

\* np.sin of an angle given in 24ths of a turn
sin(a) == Rat(SinTable[(a % TwoPi) + 1], 1000)

\* the number of time units (twelfths of a year) in a year: 1 / const.fyr
Year == TwoPi \div 2

MutHalfFyr == Rat(1, 2 * Year)

\* const.fyr: one cycle per year, in cycles per time unit
fyr == Rat(1, Year)

\* 2 * np.pi * const.fyr * toas + phase, in 24ths of a turn; toas in
\* twelfths of a year, phase in 24ths of a turn
YearlyAngle(toas, phase) ==
    LET turns == RMul(fyr, Rat(toas, 1))
    IN  (TwoPi * turns.num) \div turns.den + phase

\* chrom_yearly_sinusoid(toas, freqs, log10_Amp, phase, idx)
chrom_yearly_sinusoid(toas, freqs, log10_Amp, phase, idx) ==
    LET wf == RMul(Pow10(log10_Amp), sin(YearlyAngle(toas, phase)))
    IN  RMul(wf, RPow(TrueDiv(1400, freqs), idx))

-----------------------------------------------------------------------------
(* Evaluations of the waveform functions and calls of the signal builders *)

\* largest t0, in days
MaxT0 == 2

\* largest index of chromatic dependence
MaxIdx == 3

\* largest TOA of the sinusoid, in twelfths of a year
MaxToa == 13

\* most years a TOA is shifted by
MaxShift == 2

WaveFreqs == {700, 1400, 2800}

WaveAmps == {-3, -2}

\* TOAs around t0: a day and a second before and after, and t0 itself
ToasAround(t0) == {t0 * day + d : d \in {-day, -1, 0, 1, day}}

EvalExpDecay ==
    /\ pc = 0
    /\ wave = NoWave
    /\ \E t0 \in 0..MaxT0, freqs \in WaveFreqs, log10_Amp \in WaveAmps,
          log10_tau \in {0, 1}, idx \in 1..MaxIdx :
         \E toas \in ToasAround(t0) :
            wave' = [fn |-> "chrom_exp_decay", toas |-> toas, freqs |-> freqs,
                     log10_Amp |-> log10_Amp, t0 |-> t0, log10_tau |-> log10_tau,
                     idx |-> idx,
                     value |-> chrom_exp_decay(toas, freqs, log10_Amp, t0,
                                               log10_tau, idx)]
    /\ UNCHANGED <<pc, loadVars, modelVars, runVars, postVars>>

EvalYearlySinusoid ==
    /\ pc = 0
    /\ wave = NoWave
    /\ \E toas \in 0..MaxToa, freqs \in WaveFreqs, log10_Amp \in WaveAmps,
          phase \in {0, 1, 6, 13}, idx \in 1..MaxIdx :
            wave' = [fn |-> "chrom_yearly_sinusoid", toas |-> toas, freqs |-> freqs,
                     log10_Amp |-> log10_Amp, phase |-> phase, idx |-> idx,
                     value |-> chrom_yearly_sinusoid(toas, freqs, log10_Amp,
                                                     phase, idx)]
    /\ UNCHANGED <<pc, loadVars, modelVars, runVars, postVars>>

\* values given for idx: numbers, and 'vary'
IdxArgs == {"1", "2", "4", "vary"}

\* the pulsars the built signals are put on
WavePulsars ==
    {[name |-> n, flags |-> F] : n \in {"J1713+0747", "J1909-3744"}, F \in FlagSets}

\* dm_exponential_dip(tmin, tmax, idx=...) or dm_annual_signal(idx=...),
\* instantiated on a pulsar
BuildSignal ==
    /\ pc = 0
    /\ wave = NoWave
    /\ \E idx \in IdxArgs, p \in WavePulsars, tmin \in {"50000", "53000"} :
         \E sig \in {dm_exponential_dip(tmin, "58000", idx, "dmexp"),
                     dm_annual_signal(idx, "dm_s1yr")} :
            wave' = [fn |-> sig.name, idx |-> idx, psr |-> p.name,
                     fixed |-> sig.fixed,
                     params |-> SignalParams(sig, p)]
    /\ UNCHANGED <<pc, loadVars, modelVars, runVars, postVars>>

NextWave ==
    \/ EvalExpDecay
    \/ EvalYearlySinusoid
    \/ BuildSignal

InitWave ==
    /\ pc = 0
    /\ datadir = [par |-> {}, tim |-> [n \in AllNames |-> {}]]
    /\ noisedir = {}
    /\ InitNotebook
    /\ wave = NoWave

SpecWave == InitWave /\ [][NextWave]_vars

-----------------------------------------------------------------------------
(* Properties *)

IsPTA == pta # NoPTA

PtaIds == {pta[i].id : i \in DOMAIN pta}

\* the notebook ran to its last cell
Finished == pc = Len(CellOrder) + 1

C1_State ==
    /\ sampler.status \in {"ready", "running"} =>
          /\ IsPTA
          /\ sampler.of = PtaIds
          /\ \A i \in DOMAIN pta : pta[i].defaults /\ pta[i].models # <<>>
    /\ sampler.status = "running" => Cell \in SampleCells

C1_Step ==
    /\ pc' # pc => pc' = pc + 1 \/ pc' = 0
    /\ (sampler.status = "running" /\ pc' # pc) => sampler'.status = "returned"
    /\ chain' # chain =>
          /\ sampler.status = "returned"
          /\ chainfile.run = sampler.run
          /\ chain'.run = sampler.run
    /\ out' # out =>
          /\ sampler.status = "returned"
          /\ chain.loaded
          /\ out'.run = sampler.run

\* C1: the cells run one at a time in their fixed order; a sampler exists
\* or runs only on a PTA that has been assembled and given the noise values;
\* the notebook stays in the sample cell until sampler.sample returns; the
\* chain is loaded and a statistic is computed only after the sampler run
\* that produced the chain has returned.
C1_WorkflowOrder == [](C1_State) /\ [][C1_Step]_vars

\* all four analyses ran and the last statistic was computed from the
\* chain of the fourth sampler run
C1_Witness ==
    /\ Finished
    /\ out.stat = "odds_ratio"
    /\ sampler.run = 4 /\ sampler.status = "returned" /\ out.run = 4

\* the column of the loaded chain that a 0-based index names
ColumnAt(i) == chain.cols[PyIndex(chain.cols, i)]

\* C2: for a HyperModel run pars.txt lists the names in the order of the
\* parameter columns of chain_1.txt, so the index of 'log10_A_gw' in pars
\* names the log10_A_gw column and the index of 'nmodel' the model-index
\* column; the histograms, the upper limit, the Bayes factor and the odds
\* ratio are computed from the columns of the parameters they are named after.
C2_ParsNameColumns ==
    /\ (chainfile.exists /\ parsfile.exists /\ chainfile.run = parsfile.run) =>
          chainfile.cols = parsfile.names \o AuxColumns
    /\ (chain.loaded /\ chain.run \in {3, 4}) => chain.cols = pars \o AuxColumns
    /\ out.stat \in {"hist3", "ul3"} =>
          /\ out.run = 3
          /\ out.column = "log10_A_gw"
          /\ chain.run = 3 =>
                /\ pars[ind["ind"] + 1] = "log10_A_gw"
                /\ ColumnAt(ind["ind"]) = "log10_A_gw"
    /\ out.stat \in {"hist4", "bayes_fac", "hist_model4", "odds_ratio"} =>
          /\ out.run = 4 /\ chain.run = 4
          /\ pars[ind["ind_gwamp"] + 1] = "log10_A_gw"
          /\ pars[ind["ind_model"] + 1] = "nmodel"
          /\ ColumnAt(ind["ind_gwamp"]) = "log10_A_gw"
          /\ ColumnAt(ind["ind_model"]) = "nmodel"
          /\ out.stat \in {"hist4", "bayes_fac"} =>
                out.column = "log10_A_gw" /\ out.filter = "nmodel"
          /\ out.stat \in {"hist_model4", "odds_ratio"} =>
                out.column = "nmodel"

\* the Bayes factor of the model-selection run was computed, with two
\* pulsars loaded, from a column that is neither the first nor the model index
C2_Witness ==
    /\ out.stat = "bayes_fac"
    /\ Len(psrs) = 2
    /\ out.column = "log10_A_gw"
    /\ ind["ind_gwamp"] > 0
    /\ ind["ind_gwamp"] # ind["ind_model"]

\* the hand-built PTA of the first or of the second verbose model
HandBuilt == IsPTA /\ pta[1].id \in {1, 2}

\* C5: in both hand-built constructions every loaded pulsar contributes
\* exactly one model, in the order of psrs, and that model contains the
\* ECORR signal ec if and only if 'NANOGrav' is among the pulsar's pta flags.
C5_EcorrOnlyNanograv ==
    HandBuilt =>
        /\ Len(pta[1].models) = Len(psrs)
        /\ \A i \in DOMAIN psrs :
              /\ pta[1].models[i].psr = psrs[i].name
              /\ "ec" \in ModelSignals(pta[1].models[i]) <=> "NANOGrav" \in psrs[i].flags

\* the second hand-built PTA over a NANOGrav pulsar and a pulsar without
\* NANOGrav TOAs
C5_Witness ==
    /\ HandBuilt /\ pta[1].id = 2
    /\ Len(psrs) = 2
    /\ "NANOGrav" \in psrs[1].flags
    /\ "NANOGrav" \notin psrs[2].flags
    /\ "ec" \in ModelSignals(pta[1].models[1])

\* C6 (as claimed): in the second hand-built model the model of a pulsar
\* contains the dm_exponential_dip signal if and only if the pulsar is named
\* J1713+0747, whatever its pta flags are.
C6_DipForJ1713 ==
    (IsPTA /\ pta[1].id = 2) =>
        \A i \in DOMAIN psrs :
            "dm_exponential_dip" \in ModelSignals(pta[1].models[i])
                <=> psrs[i].name = "J1713+0747"

BaseSignals == {"ef", "eq", "rn", "dm_gp", "tm", "eph", "gw"}

\* C7: the model of every pulsar of the second hand-built PTA contains the
\* dm_annual_signal signal in addition to the seven signals of the base
\* model, and no model of the first hand-built PTA contains it.
C7_AnnualForAll ==
    /\ (IsPTA /\ pta[1].id = 2) =>
          \A i \in DOMAIN pta[1].models :
              BaseSignals \cup {"dm_annual_signal"} \subseteq ModelSignals(pta[1].models[i])
    /\ (IsPTA /\ pta[1].id = 1) =>
          \A i \in DOMAIN pta[1].models :
              /\ BaseSignals \subseteq ModelSignals(pta[1].models[i])
              /\ "dm_annual_signal" \notin ModelSignals(pta[1].models[i])

\* the second hand-built PTA over a pulsar without NANOGrav TOAs that is
\* not J1713+0747 and a NANOGrav pulsar
C7_Witness ==
    /\ IsPTA /\ pta[1].id = 2
    /\ Len(psrs) = 2
    /\ \E i \in DOMAIN psrs :
          "NANOGrav" \notin psrs[i].flags /\ psrs[i].name # "J1713+0747"
    /\ \E i \in DOMAIN psrs : "NANOGrav" \in psrs[i].flags
    /\ \A i \in DOMAIN pta[1].models : "dm_annual_signal" \in ModelSignals(pta[1].models[i])

\* how often a name occurs among the parameters of a PTA
CountIn(names, name) == Cardinality({i \in DOMAIN names : names[i] = name})

\* the names of pta.params, in order
ParamNames(P) == LET pp == PtaParams(P) IN [i \in DOMAIN pp |-> pp[i].name]

Occurrences(P, name) == CountIn(ParamNames(P), name)

\* the names given to keyword kw of signal sig over the models of a PTA
NamesIn(all, sig, kw) == {q.name : q \in {r \in all : r.sig = sig /\ r.kw = kw}}

LoadedNames == {psrs[i].name : i \in DOMAIN psrs}

\* C8: in the assembled PTA the GWB amplitude is one parameter in common:
\* every pulsar's gw signal names it 'log10_A_gw' and it occurs exactly once
\* in pta.params; the red-noise and DM-variation amplitudes and indices
\* occur once per loaded pulsar, under pulsar-specific names.
C8_CommonGwAmplitude ==
    HandBuilt =>
        LET P     == pta[1]
            all   == AllParams(P)
            names == ParamNames(P)
        IN
        /\ NamesIn(all, "gw", "log10_A") = {"log10_A_gw"}
        /\ CountIn(names, "log10_A_gw") = 1
        /\ x0.of = {P.id} => CountIn(x0.entries, "log10_A_gw") = 1
        /\ NamesIn(all, "rn", "log10_A") = {n \o "_log10_A" : n \in LoadedNames}
        /\ NamesIn(all, "rn", "gamma") = {n \o "_gamma" : n \in LoadedNames}
        /\ NamesIn(all, "dm_gp", "log10_A") = {n \o "_dm_gp_log10_A" : n \in LoadedNames}
        /\ NamesIn(all, "dm_gp", "gamma") = {n \o "_dm_gp_gamma" : n \in LoadedNames}
        /\ \A sk \in {"rn", "dm_gp"} \X {"log10_A", "gamma"} :
              /\ Cardinality(NamesIn(all, sk[1], sk[2])) = Len(psrs)
              /\ \A n \in NamesIn(all, sk[1], sk[2]) : CountIn(names, n) = 1

\* a hand-built PTA over two pulsars whose start vector has been drawn
C8_Witness ==
    /\ HandBuilt
    /\ Len(psrs) = 2
    /\ x0.of = {pta[1].id}
    /\ Occurrences(pta[1], "log10_A_gw") = 1

\* the parameters the notebook declares as constants: the white noise of
\* ef, eq and ec and the spectral index of gw
IsFixed(q) == q.sig \in {"ef", "eq", "ec"} \/ (q.sig = "gw" /\ q.kw = "gamma")

IsWhite(q) == q.sig \in {"ef", "eq", "ec"}

\* the names before the auxiliary columns of a chain
ParameterColumns(cols) == {cols[i] : i \in 1..(Len(cols) - Len(AuxColumns))}

C3_DipAtT0 ==
    (wave.fn = "chrom_exp_decay" /\ wave.toas = wave.t0 * day) =>
        /\ heaviside(wave.toas - wave.t0 * day, 1) = 1
        /\ ExpNeg(wave.toas - wave.t0 * day, day) = Rat(1, 1)
        /\ wave.value = RNeg(RMul(Pow10(wave.log10_Amp),
                                  RPow(Rat(1400, wave.freqs), wave.idx)))

\* the function was evaluated at toas = t0, two days after the origin, at
\* a radio frequency above 1400 MHz
C3_Witness ==
    /\ wave.fn = "chrom_exp_decay"
    /\ wave.t0 = 2 /\ wave.toas = 2 * day
    /\ wave.freqs = 2800 /\ wave.idx = 2
    /\ wave.value = Rat(-1, 400)

\* C4: chrom_yearly_sinusoid takes the same value at toas + k/const.fyr as
\* at toas, for every integer k, with the other arguments held fixed.
C4_YearlyPeriodic ==
    wave.fn = "chrom_yearly_sinusoid" =>
        \A k \in (-MaxShift)..MaxShift :
            chrom_yearly_sinusoid(wave.toas + k * Year, wave.freqs, wave.log10_Amp,
                                  wave.phase, wave.idx) = wave.value

\* the sinusoid was evaluated to a value other than 0 at a TOA after the
\* first year
C4_Witness ==
    /\ wave.fn = "chrom_yearly_sinusoid"
    /\ wave.toas > Year
    /\ wave.value.num # 0

\* C10 (as claimed): with idx = 'vary' the index of radio-frequency
\* dependence is a free parameter of the returned signal with a prior from
\* 1 to 6; with a numeric idx it is fixed at that value and adds no parameter.
C10_VaryIdx ==
    wave.fn \in {"dm_exponential_dip", "dm_annual_signal"} =>
        IF wave.idx = "vary"
        THEN \E q \in wave.params :
                q.kw = "idx" /\ q.cls = "Uniform" /\ q.lo = "1" /\ q.hi = "6"
        ELSE /\ \A q \in wave.params : q.kw # "idx"
             /\ wave.fixed = <<[kw |-> "idx", arg |-> wave.idx]>>

-----------------------------------------------------------------------------
(* Loading pulsars without a distance *)

\* the loaded pulsars, had a distance been found for each of them
WithDistance(pulsars) ==
    [i \in DOMAIN pulsars |->
        [pulsars[i] EXCEPT !.pdist = [value |-> "found", uncertainty |-> "found"]]]

\* the hand-built PTA number id over the given pulsars
HandBuiltPTA(id, pulsars) ==
    PTA(id,
        IF id = 1 THEN FirstModels(FullModel, pulsars)
                  ELSE SecondModels(SecondModel, pulsars),
        "")

C11_State ==
    /\ \A i \in DOMAIN psrs :
          IF psrs[i].name \in datadir.dist
          THEN /\ psrs[i].pdist.value = "found"
               /\ psrs[i].name \notin Range(warnings)
          ELSE /\ psrs[i].pdist = DefaultDistance
               /\ psrs[i].name \in Range(warnings)
    /\ HandBuilt =>
          LET P == HandBuiltPTA(pta[1].id, WithDistance(psrs))
          IN  pta[1] = IF pta[1].defaults THEN SetDefaultParams(P, params) ELSE P
    /\ (IsPTA /\ ~HandBuilt) =>
          \A i \in DOMAIN pta :
              pta[i] = model_general(pta[i].id, WithDistance(psrs), params,
                                     pta[i].id = 3, pta[i].orf)

C11_Step ==
    At("load_pulsars") =>
        /\ pc' = pc + 1
        /\ Len(psrs') = Min(Min(Len(parfiles), NLoad), Min(Len(timfiles), NLoad))
        /\ \A i \in DOMAIN psrs' : psrs'[i].name = FilePrefix(parfiles[i])

\* C11: a missing pulsar distance is not fatal: the loading cell warns about
\* the pulsar, gives it the default distance of 1 kpc with 20% uncertainty,
\* still appends it to psrs and goes on to the next pair of files, and every
\* PTA built later is the one the same pulsars with a distance would give.
C11_MissingDistance == [](C11_State) /\ [][C11_Step]_vars

\* the notebook ran to its end on two pulsars, one loaded without a
\* distance after one loaded with a distance or the reverse
C11_Witness ==
    /\ Finished
    /\ Len(psrs) = 2
    /\ Len(warnings) = 1
    /\ \E i \in DOMAIN psrs : psrs[i].pdist = DefaultDistance
    /\ \E i \in DOMAIN psrs : psrs[i].pdist.value = "found"

-----------------------------------------------------------------------------
(* The files of the output directory over the four runs *)

\* cells that load chain_1.txt
LoadCells == {"load_chain", "read_chain3", "post4"}

C12_State ==
    /\ sampler.status # "none" => (sampler.outDir = outdir /\ ~sampler.resume)
    /\ chainfile.exists => chainfile.writers \subseteq {chainfile.run}
    /\ chain.loaded => chain.writers = {chain.run}

C12_Step ==
    (Cell \in LoadCells /\ pc' = pc + 1) =>
        /\ sampler.status = "returned"
        /\ chain'.run = sampler.run
        /\ chain'.writers = {sampler.run}
        /\ chain'.cols = sampler.names \o AuxColumns
        /\ Cell # "load_chain" =>
              (parsfile.run = sampler.run /\ pars' = parsfile.names)

\* C12: every sampler is constructed on the same output directory with
\* resume=False and every run starts a fresh chain: whenever chain_1.txt is
\* loaded, all its rows and its columns are those of the sampler run that
\* returned last, and a pars.txt loaded with it was written for that run.
C12_FreshChain == [](C12_State) /\ [][C12_Step]_vars

\* the chain of the fourth run has been loaded, after three earlier runs
\* with other columns wrote to the same file
C12_Witness ==
    /\ chain.loaded /\ chain.run = 4 /\ chain.nrows > 1
    /\ chain.writers = {4}
    /\ chain.cols # VectorNames(HandBuiltPTA(1, psrs)) \o AuxColumns

-----------------------------------------------------------------------------
(* The arguments of sampler.sample *)

\* the step that calls sampler.sample(x0, N, ...)
SampleCall == Cell \in SampleCells /\ sampler.status = "ready" /\ sampler' # sampler

\* what holds of every call: the vector has the sampler's dimension and was
\* drawn for the models the sampler holds, and the sampler is the one
\* constructed for this analysis, with a covariance of its dimension
SampleCallArguments ==
    /\ Len(x0'.entries) = sampler.ndim
    /\ x0'.of = sampler.of
    /\ x0'.entries = sampler.names
    /\ sampler.run = Analysis(Cell)
    /\ sampler.cov.n = sampler.ndim
    /\ sampler.of = {pta[i].id : i \in DOMAIN pta}

HandBuiltCall ==
    /\ sampler.cov = [n |-> sampler.ndim, diag |-> "0.01**2"]
    /\ ndim = sampler.ndim /\ cov = sampler.cov

\* C13 (as claimed): at every call of sampler.sample the start vector has
\* the sampler's ndim entries and was drawn for the sampler's models, and
\* the initial jump covariance is the ndim x ndim diagonal matrix with
\* entries 0.01**2.
C13_AsClaimed ==
    [][(Cell \in SampleCells /\ sampler.status = "ready") =>
          /\ pc' = pc
          /\ SampleCall => (SampleCallArguments /\ HandBuiltCall)]_vars

\* C13: at every call of sampler.sample the start vector has the sampler's
\* ndim entries and was drawn for the models the sampler holds, the call
\* does not fail, and the covariance is ndim x ndim; for the two hand-built
\* samplers it is the diagonal matrix with entries 0.01**2 built from the
\* ndim of the same model, for the HyperModel samplers it is the matrix
\* setup_sampler supplies.
C13_SampleArguments ==
    [][(Cell \in SampleCells /\ sampler.status = "ready") =>
          /\ pc' = pc
          /\ SampleCall =>
                /\ SampleCallArguments
                /\ IF Cell \in RedrawCells THEN HandBuiltCall
                   ELSE sampler.cov.diag = "setup_sampler"]_vars

\* the sampler of the second hand-built model is running on a vector longer
\* than the one of the first model
C13_Witness ==
    /\ Cell = "sample2" /\ sampler.status = "running"
    /\ Len(x0.entries) = sampler.ndim
    /\ Len(psrs) = 2
    /\ sampler.ndim > Len(VectorNames(HandBuiltPTA(1, psrs)))

-----------------------------------------------------------------------------
(* The pairs of files the loading loop passes to Pulsar *)

\* C14 (as claimed): every (par, tim) pair passed to Pulsar belongs to one
\* pulsar: at each position the loading loop has used, parfiles[i] and
\* timfiles[i] have the same pulsar-name prefix, whatever the data directory
\* holds.
C14_PairsMatch ==
    \A i \in DOMAIN psrs : FilePrefix(parfiles[i]) = FilePrefix(timfiles[i])

-----------------------------------------------------------------------------
(* The fixed column of the first analysis *)

\* the last entry of a sequence
Last(seq) == seq[Len(seq)]

-----------------------------------------------------------------------------
(* Burn-in *)

\* cells that compute a summary statistic
StatCells ==
    {"hist", "upper", "hist3", "ul3", "hist4", "hist_model4", "bayes_fac",
     "odds_ratio"}

\* the rows of a chain of n rows that lie in its first quarter (0-based)
FirstQuarter(n) == {r \in 0..(n - 1) : 4 * (r + 1) <= n}

C16_State ==
    chain.loaded =>
        /\ 0 <= burn /\ burn <= chain.nrows
        /\ 4 * burn <= chain.nrows /\ chain.nrows < 4 * (burn + 1)
        /\ chain.nrows >= 1 => burn < chain.nrows

C16_Step ==
    /\ (Cell \in LoadCells /\ pc' = pc + 1) =>
          4 * burn' <= chain'.nrows /\ chain'.nrows < 4 * (burn' + 1)
    /\ (Cell \in StatCells /\ pc' = pc + 1) =>
          /\ out'.stat = Cell
          /\ out'.run = chain.run
          /\ out'.rows = (0..(chain.nrows - 1)) \ FirstQuarter(chain.nrows)
          /\ \A r \in out'.rows : r >= burn
          /\ out'.rows # {}
    /\ (Cell \in StatCells) => chain.loaded /\ chain.run = Analysis(Cell)

-----------------------------------------------------------------------------
(* The noise dictionary *)

\* the loading loop of the noise files has run
NoiseLoaded == Cell \notin {"glob_partim", "load_pulsars", "glob_noise", "load_noise"}

\* position of a file name in sorted order
SortedPosition(file) == CHOOSE i \in DOMAIN NoiseFileOrder : NoiseFileOrder[i] = file

\* the files of the noise directory that list key k
Holders(k) == {nf \in noisedir : k \in DOMAIN nf.dict}

\* of the files that list key k, the one that sorts last
LastHolder(k) ==
    CHOOSE nf \in Holders(k) :
        \A other \in Holders(k) : SortedPosition(other.file) <= SortedPosition(nf.file)

\* params after the first n files of the loop
ParamsAfter(n) == UpdateAll(EmptyDict, SubSeq(noisefiles, 1, n))

C17_State ==
    NoiseLoaded =>
        /\ DOMAIN params = UNION {DOMAIN nf.dict : nf \in noisedir}
        /\ \A k \in DOMAIN params : params[k] = LastHolder(k).dict[k]
        /\ noisedir = {} => params = EmptyDict
        /\ Len(noisefiles) = Cardinality(noisedir)
        /\ \A n \in 1..Len(noisefiles) :
              /\ DOMAIN ParamsAfter(n - 1) \subseteq DOMAIN ParamsAfter(n)
              /\ DOMAIN noisefiles[n].dict \subseteq DOMAIN ParamsAfter(n)

C17_Step == DOMAIN params \subseteq DOMAIN params'

\* C17: params is the union of all noise files: after the loading loop it
\* holds every key of every file of the noise directory, no key is ever
\* removed, a key listed by several files holds the value of the file that
\* sorts last, and with no file params is the empty dictionary.
C17_NoiseUnion == [](C17_State) /\ [][C17_Step]_vars

\* the notebook ran to its end with a key that two files list with
\* different values, holding the value of the later file
C17_Witness ==
    /\ Finished
    /\ \E k \in DOMAIN params :
          /\ Cardinality({nf.dict[k] : nf \in Holders(k)}) = 2
          /\ params[k] = 2
    /\ \E k \in DOMAIN params : Cardinality(Holders(k)) = 1

====
